---- MODULE Spec2Model ----
(***************************************************************************)
(* A model of the probabilistic database: the probability store            *)
(* (store.py), the query classes and the parser (query.py), the helpers    *)
(* (util.py) and the lifted evaluator (evaluate.py).                       *)
(*                                                                         *)
(* Python values are modelled as follows.                                  *)
(*   - An object is a record holding the attributes its __init__ sets,     *)
(*     plus `kind`, the name of its class.  Reading an attribute a class   *)
(*     does not set raises AttributeError, as in Python.                   *)
(*   - A term of an atom is a record: [kind |-> "str", name |-> c] for a   *)
(*     constant string c, [kind |-> "Variable", name |-> n, id |-> i] for  *)
(*     a Variable object.  Variable defines neither __eq__ nor __hash__,   *)
(*     so two Variables are equal only if they are the same object: `id`   *)
(*     is the identity of the object.                                      *)
(*   - A call's outcome is [exc |-> "none", value |-> v] when it returns   *)
(*     v and [exc |-> E, value |-> <<>>] when it raises E.                 *)
(*   - A float is an exact fraction [n |-> numerator, d |-> denominator].  *)
(***************************************************************************)
EXTENDS Integers, Sequences, FiniteSets, TLC

VARIABLES
    store,            \* the Store object: [probabilities, arities]
    recorded,         \* history: the probability of the latest successful add of each key
    last,             \* the latest call on the store or the evaluator, and its outcome
    parse_defaults,   \* the dict object that is the default of parse_query's `variables`
    parsed,           \* the latest parse_query call: its source tree, its text, its outcome
    pool,             \* the query objects decompose is called on, by identity
    decomposed        \* the latest decompose call: its argument and its outcome

vars == <<store, recorded, last, parse_defaults, parsed, pool, decomposed>>

----------------------------------------------------------------------------
(* Python plumbing *)

Return(v) == [exc |-> "none", value |-> v]

Raise(e) == [exc |-> e, value |-> <<>>]

None == [none |-> TRUE]

Some(v) == [none |-> FALSE, val |-> v]

EmptyDict == [k \in {} |-> k]

Put(dict, key, val) == [k \in (DOMAIN dict) \cup {key} |-> IF k = key THEN val ELSE dict[k]]

GetAttr(obj, attr) == IF attr \in DOMAIN obj THEN Return(obj[attr]) ELSE Raise("AttributeError")

Frac(n, d) == [n |-> n, d |-> d]

Zero == Frac(0, 1)

One == Frac(1, 1)

FracEq(p, q) == p.n * q.d = q.n * p.d

FracLeq(p, q) == p.n * q.d <= q.n * p.d

FracMul(p, q) == Frac(p.n * q.n, p.d * q.d)

FracAdd(p, q) == Frac(p.n * q.d + q.n * p.d, p.d * q.d)

FracSub(p, q) == Frac(p.n * q.d - q.n * p.d, p.d * q.d)

----------------------------------------------------------------------------
(* store.py *)

Store_init == [probabilities |-> EmptyDict, arities |-> EmptyDict]

\* The store after the assignment of line 17 only: the arity check is skipped.
Store_add_assign_first(self, relation, tuple_, probability) ==
    LET assigned == [self EXCEPT !.probabilities = Put(@, <<relation, tuple_>>, probability)]
    IN  IF relation \notin DOMAIN self.arities
        THEN [exc |-> "none", self |-> [assigned EXCEPT !.arities = Put(@, relation, Len(tuple_))]]
        ELSE IF self.arities[relation] # Len(tuple_)
        THEN [exc |-> "ValueError", self |-> assigned]
        ELSE [exc |-> "none", self |-> assigned]

\* The store keeps the first probability of a key (setdefault instead of assignment).
Store_add_keep_first(self, relation, tuple_, probability) ==
    LET kept == IF <<relation, tuple_>> \in DOMAIN self.probabilities
                THEN self
                ELSE [self EXCEPT !.probabilities = Put(@, <<relation, tuple_>>, probability)]
    IN  IF relation \notin DOMAIN self.arities
        THEN [exc |-> "none", self |-> [kept EXCEPT !.arities = Put(@, relation, Len(tuple_))]]
        ELSE IF self.arities[relation] # Len(tuple_)
        THEN [exc |-> "ValueError", self |-> self]
        ELSE [exc |-> "none", self |-> kept]

\* Store.add: the outcome and the object after the call.
Store_add(self, relation, tuple_, probability) ==
    IF relation \notin DOMAIN self.arities
    THEN [exc |-> "none",
          self |-> [probabilities |-> Put(self.probabilities, <<relation, tuple_>>, probability),
                    arities |-> Put(self.arities, relation, Len(tuple_))]]
    ELSE IF self.arities[relation] # Len(tuple_)
    THEN [exc |-> "ValueError", self |-> self]
    ELSE [exc |-> "none",
          self |-> [self EXCEPT !.probabilities = Put(@, <<relation, tuple_>>, probability)]]

Store_get(self, relation, tuple_) ==
    IF <<relation, tuple_>> \in DOMAIN self.probabilities
    THEN self.probabilities[<<relation, tuple_>>]
    ELSE Zero

\* The inner loop of Store.values (lines 29-32) from (0-based) position position_ on.
RECURSIVE values_items(_, _, _, _)
values_items(tuple_, position_, position, s) ==
    IF position_ >= Len(tuple_) THEN s
    ELSE IF ~position.none /\ position_ # position.val
    THEN values_items(tuple_, position_ + 1, position, s)
    ELSE values_items(tuple_, position_ + 1, position, s \cup {tuple_[position_ + 1]})

\* The inner loop with `if position and ...`: position 0 is falsy and filters nothing.
RECURSIVE values_items_truthy(_, _, _, _)
values_items_truthy(tuple_, position_, position, s) ==
    IF position_ >= Len(tuple_) THEN s
    ELSE IF ~position.none /\ position.val # 0 /\ position_ # position.val
    THEN values_items_truthy(tuple_, position_ + 1, position, s)
    ELSE values_items_truthy(tuple_, position_ + 1, position, s \cup {tuple_[position_ + 1]})

\* The outer loop of Store.values (lines 26-32) over the keys not yet visited.
RECURSIVE values_keys(_, _, _, _)
values_keys(keys, relation, position, s) ==
    IF keys = {} THEN s
    ELSE LET key == CHOOSE k \in keys : TRUE
             relation_ == key[1]
             tuple_ == key[2]
         IN  IF ~relation.none /\ relation_ # relation.val
             THEN values_keys(keys \ {key}, relation, position, s)
             ELSE values_keys(keys \ {key}, relation, position,
                              values_items(tuple_, 0, position, s))

RECURSIVE values_keys_truthy(_, _, _, _)
values_keys_truthy(keys, relation, position, s) ==
    IF keys = {} THEN s
    ELSE LET key == CHOOSE k \in keys : TRUE
         IN  IF ~relation.none /\ key[1] # relation.val
             THEN values_keys_truthy(keys \ {key}, relation, position, s)
             ELSE values_keys_truthy(keys \ {key}, relation, position,
                                     values_items_truthy(key[2], 0, position, s))

Store_values_truthy(self, relation, position) ==
    values_keys_truthy(DOMAIN self.probabilities, relation, position, {})

Store_values(self, relation, position) ==
    values_keys(DOMAIN self.probabilities, relation, position, {})

----------------------------------------------------------------------------
(* query.py: the classes.  Conjunction and Disjunction set `left` and      *)
(* `right` and nothing else: no query object has an attribute `children`.  *)

Str(c) == [kind |-> "str", name |-> c]

Variable(name, id) == [kind |-> "Variable", name |-> name, id |-> id]

Atom(relation, tuple_) == [kind |-> "Atom", relation |-> relation, tuple |-> tuple_]

Negation(inner) == [kind |-> "Negation", inner |-> inner]

Conjunction(left, right) == [kind |-> "Conjunction", left |-> left, right |-> right]

Disjunction(left, right) == [kind |-> "Disjunction", left |-> left, right |-> right]

ExistentialQuantifier(variable, inner) ==
    [kind |-> "ExistentialQuantifier", variable |-> variable, inner |-> inner]

UniversalQuantifier(variable, inner) ==
    [kind |-> "UniversalQuantifier", variable |-> variable, inner |-> inner]

----------------------------------------------------------------------------
(* evaluate.py: query analysis *)

Range(f) == {f[i] : i \in DOMAIN f}

\* get_atoms: the list of the atoms of query.  A Conjunction or a Disjunction reads
\* query.children (line 16), which no class sets; other classes reach `assert False`.
get_atoms(query) ==
    IF query.kind = "Atom" THEN Return(<<query>>)
    ELSE IF query.kind \in {"Conjunction", "Disjunction"}
    THEN GetAttr(query, "children")
    ELSE Raise("AssertionError")

\* get_variables: the set of the Variable objects in the atoms of query.
get_variables(query) ==
    LET atoms == get_atoms(query)
    IN  IF atoms.exc # "none" THEN atoms
        ELSE Return({item \in UNION {Range(atom.tuple) : atom \in Range(atoms.value)} :
                        item.kind = "Variable"})

\* find_occurrences: the (relation, 0-based position) pairs at which `variable` occurs.
find_occurrences(query, variable) ==
    LET atoms == get_atoms(query)
    IN  IF atoms.exc # "none" THEN atoms
        ELSE Return(UNION {{<<atom.relation, i - 1>> :
                              i \in {j \in DOMAIN atom.tuple : atom.tuple[j] = variable}} :
                           atom \in Range(atoms.value)})

\* tuple.count(x)
Count(tuple_, x) == Cardinality({i \in DOMAIN tuple_ : tuple_[i] = x})

\* tuple.index(x), 0-based: the first position holding x
Index(tuple_, x) ==
    (CHOOSE i \in DOMAIN tuple_ : tuple_[i] = x /\ \A j \in 1 .. (i - 1) : tuple_[j] # x) - 1

\* The loop of is_separator_variable (lines 54-61) from the k-th atom on.
RECURSIVE separator_loop(_, _, _, _)
separator_loop(atoms, k, variable, relation_to_position) ==
    IF k > Len(atoms) THEN TRUE
    ELSE LET atom == atoms[k]
         IN  IF Count(atom.tuple, variable) # 1 THEN FALSE
             ELSE LET position == Index(atom.tuple, variable)
                  IN  IF atom.relation \notin DOMAIN relation_to_position
                      THEN separator_loop(atoms, k + 1, variable,
                                          Put(relation_to_position, atom.relation, position))
                      ELSE IF relation_to_position[atom.relation] # position THEN FALSE
                      ELSE separator_loop(atoms, k + 1, variable, relation_to_position)

is_separator_variable(variable, query) ==
    LET atoms == get_atoms(query)
    IN  IF atoms.exc # "none" THEN atoms
        ELSE Return(separator_loop(atoms.value, 1, variable, EmptyDict))

\* rewrite: an Atom is rebuilt with the variable replaced; a Conjunction or a
\* Disjunction reads query.children (lines 77, 79); other classes reach `assert False`.
RECURSIVE rewrite(_, _, _)
rewrite(query, variable, constant) ==
    IF query.kind = "Atom"
    THEN Return(Atom(query.relation,
                     [i \in DOMAIN query.tuple |->
                        IF query.tuple[i] = variable THEN Str(constant) ELSE query.tuple[i]]))
    ELSE IF query.kind \in {"Conjunction", "Disjunction"}
    THEN GetAttr(query, "children")
    ELSE IF query.kind = "ExistentialQuantifier"
    THEN LET inner == rewrite(query.inner, variable, constant)
         IN  IF inner.exc # "none" THEN inner
             ELSE Return(ExistentialQuantifier(query.variable, inner.value))
    ELSE Raise("AssertionError")

\* remove_quantifiers: a Conjunction or a Disjunction reads query.children (lines 91,
\* 93); a Negation or a UniversalQuantifier reaches `assert False`.
RECURSIVE remove_quantifiers(_)
remove_quantifiers(query) ==
    IF query.kind = "Atom" THEN Return(query)
    ELSE IF query.kind \in {"Conjunction", "Disjunction"}
    THEN GetAttr(query, "children")
    ELSE IF query.kind = "ExistentialQuantifier"
    THEN remove_quantifiers(query.inner)
    ELSE Raise("AssertionError")

\* is_unifiable: zip(atom1.tuple, atom2.tuple) stops at the shorter tuple.
is_unifiable(atom1, atom2) ==
    IF atom1.relation # atom2.relation THEN FALSE
    ELSE \A i \in (DOMAIN atom1.tuple) \cap (DOMAIN atom2.tuple) :
            ~(/\ atom1.tuple[i].kind = "str"
              /\ atom2.tuple[i].kind = "str"
              /\ atom1.tuple[i] # atom2.tuple[i])

\* is_independent: get_atoms(query1) is evaluated first, then get_atoms(query2).
is_independent(query1, query2) ==
    LET atoms1 == get_atoms(query1)
        atoms2 == get_atoms(query2)
    IN  IF atoms1.exc # "none" THEN atoms1
        ELSE IF atoms2.exc # "none" THEN atoms2
        ELSE Return(\A i \in DOMAIN atoms1.value : \A j \in DOMAIN atoms2.value :
                        ~is_unifiable(atoms1.value[i], atoms2.value[j]))

----------------------------------------------------------------------------
(* util.py.  The values of a DisjointSet are query objects, which hash and  *)
(* compare by identity: a list of queries is a list of object identities,   *)
(* and `heap` gives the object of an identity.  A dict keeps its keys in    *)
(* insertion order: `keys` is that order.                                   *)

\* list(dict.fromkeys(values)): the values in order of first occurrence
RECURSIVE InsertionOrder(_, _)
InsertionOrder(values, seen) ==
    IF values = <<>> THEN <<>>
    ELSE IF Head(values) \in seen THEN InsertionOrder(Tail(values), seen)
    ELSE <<Head(values)>> \o InsertionOrder(Tail(values), seen \cup {Head(values)})

DisjointSet(values) ==
    [parent |-> [value \in Range(values) |-> value], keys |-> InsertionOrder(values, {})]

RECURSIVE find_root(_, _)
find_root(self, x) == IF self.parent[x] = x THEN x ELSE find_root(self, self.parent[x])

unite(self, x, y) ==
    LET x_ == find_root(self, x)
        y_ == find_root(self, y)
    IN  IF x_ # y_ THEN [self EXCEPT !.parent[y_] = x_] ELSE self

same(self, x, y) == find_root(self, x) = find_root(self, y)

\* The loop of groups (lines 33-34) from the k-th key on: `roots` are the keys of d in
\* insertion order.
RECURSIVE groups_loop(_, _, _, _)
groups_loop(self, k, roots, d) ==
    IF k > Len(self.keys) THEN [i \in DOMAIN roots |-> d[roots[i]]]
    ELSE LET value == self.keys[k]
             root == find_root(self, value)
         IN  IF root \in DOMAIN d
             THEN groups_loop(self, k + 1, roots, [d EXCEPT ![root] = Append(@, value)])
             ELSE groups_loop(self, k + 1, Append(roots, root), Put(d, root, <<value>>))

groups(self) == groups_loop(self, 1, <<>>, EmptyDict)

RECURSIVE Pow2(_)
Pow2(n) == IF n = 0 THEN 1 ELSE 2 * Pow2(n - 1)

\* The inner loop of powerset (lines 45-47): the items s[j] whose bit j is set in i.
RECURSIVE subset_loop(_, _, _)
subset_loop(s, i, j) ==
    IF j >= Len(s) THEN <<>>
    ELSE IF (i \div Pow2(j)) % 2 = 1
    THEN <<s[j + 1]>> \o subset_loop(s, i, j + 1)
    ELSE subset_loop(s, i, j + 1)

powerset(s) == [k \in 1 .. Pow2(Len(s)) |-> subset_loop(s, k - 1, 0)]

----------------------------------------------------------------------------
(* evaluate.py: decompose and evaluate_query *)

\* The loop of decompose (lines 156-158) over product(queries, queries), from the k-th
\* pair on (k counts from 0).
RECURSIVE decompose_loop(_, _, _, _)
decompose_loop(queries, heap, k, disjoint_set) ==
    IF k >= Len(queries) * Len(queries) THEN Return(groups(disjoint_set))
    ELSE LET query1 == queries[(k \div Len(queries)) + 1]
             query2 == queries[(k % Len(queries)) + 1]
             independent == is_independent(heap[query1], heap[query2])
         IN  IF independent.exc # "none" THEN independent
             ELSE IF ~independent.value
             THEN decompose_loop(queries, heap, k + 1, unite(disjoint_set, query1, query2))
             ELSE decompose_loop(queries, heap, k + 1, disjoint_set)

decompose(queries, heap) == decompose_loop(queries, heap, 0, DisjointSet(queries))

\* evaluate_query.  Lines 169-176 as written.  After line 176 the query is a
\* Conjunction or a Disjunction, and each path reads query.children before anything
\* else: push_disjunction at line 107 (from 179), decompose(query.children) at lines 182
\* and 217.  remove_quantifiers has raised on these classes already.
evaluate_query(query_, store_) ==
    LET query == remove_quantifiers(query_)
    IN  IF query.exc # "none" THEN query
        ELSE IF query.value.kind = "Atom"
        THEN IF \E i \in DOMAIN query.value.tuple : query.value.tuple[i].kind # "str"
             THEN Raise("AssertionError")
             ELSE Return(Store_get(store_, query.value.relation,
                                   [i \in DOMAIN query.value.tuple |-> query.value.tuple[i].name]))
        ELSE GetAttr(query.value, "children")

----------------------------------------------------------------------------
(* query.py: parse_query.  A Python str is the sequence of its characters.  *)
(* A dict is passed by reference: parse_query returns, next to its outcome, *)
(* the content of the dict object it was given as it is after the call, and *)
(* the caller goes on with that content.  `id` is the identity given to the *)
(* Variable object the call creates; the calls on its children get 2 * id   *)
(* and 2 * id + 1.                                                          *)

\* The for loop of parse_query (lines 95-118) from the k-th character on.
RECURSIVE scan(_, _, _)
scan(query, k, st) ==
    IF k > Len(query) THEN st
    ELSE LET c == query[k]
         IN  IF c = "("
             THEN IF st.level = 0
                  THEN scan(query, k + 1, [st EXCEPT !.operator_name = st.buf, !.buf = <<>>,
                                                     !.level = st.level + 1])
                  ELSE scan(query, k + 1, [st EXCEPT !.buf = Append(st.buf, c),
                                                     !.level = st.level + 1])
             ELSE IF c = ")"
             THEN IF st.level - 1 = 0
                  THEN scan(query, k + 1, [st EXCEPT !.children = Append(st.children, st.buf),
                                                     !.buf = <<>>, !.level = st.level - 1])
                  ELSE IF st.level - 1 < 0
                  THEN [st EXCEPT !.exc = "ParseError"]
                  ELSE scan(query, k + 1, [st EXCEPT !.buf = Append(st.buf, c),
                                                     !.level = st.level - 1])
             ELSE IF c = " "
             THEN scan(query, k + 1, st)
             ELSE IF c = "," /\ st.level = 1
             THEN scan(query, k + 1, [st EXCEPT !.children = Append(st.children, st.buf),
                                                !.buf = <<>>])
             ELSE scan(query, k + 1, [st EXCEPT !.buf = Append(st.buf, c)])

\* `variables = variables.copy()` dropped: the name stays bound to the caller's dict.
copy_alias(variables) == [dict |-> variables, aliased |-> TRUE]

\* variables.copy() (lines 141, 148): a new dict object with the same content.
copy(variables) == [dict |-> variables, aliased |-> FALSE]

\* variables.get(child, child) (line 152)
dict_get(variables, child) == IF child \in DOMAIN variables THEN variables[child] ELSE Str(child)

Returned(value, variables) == [exc |-> "none", value |-> value, variables |-> variables]

Raised(exc, variables) == [exc |-> exc, value |-> <<>>, variables |-> variables]

RECURSIVE parse_query(_, _, _)
parse_query(query, variables, id) ==
    LET st == scan(query, 1, [operator_name |-> <<>>, children |-> <<>>, level |-> 0,
                              buf |-> <<>>, exc |-> "none"])
        operator_name == st.operator_name
        children == st.children
    IN  IF st.exc # "none" \/ st.level # 0 THEN Raised("ParseError", variables)
        ELSE IF operator_name = <<"n", "o", "t">>
        THEN IF Len(children) # 1 THEN Raised("ParseError", variables)
             ELSE LET inner == parse_query(children[1], variables, 2 * id)
                  IN  IF inner.exc # "none" THEN inner
                      ELSE Returned(Negation(inner.value), inner.variables)
        ELSE IF operator_name \in {<<"a", "n", "d">>, <<"o", "r">>}
        THEN IF Len(children) # 2 THEN Raised("ParseError", variables)
             ELSE LET left == parse_query(children[1], variables, 2 * id)
                      right == parse_query(children[2], left.variables, 2 * id + 1)
                  IN  IF left.exc # "none" THEN left
                      ELSE IF right.exc # "none" THEN right
                      ELSE IF operator_name = <<"a", "n", "d">>
                      THEN Returned(Conjunction(left.value, right.value), right.variables)
                      ELSE Returned(Disjunction(left.value, right.value), right.variables)
        ELSE IF operator_name \in {<<"e", "x", "i", "s", "t">>,
                                   <<"f", "o", "r", "a", "l", "l">>}
        THEN IF Len(children) # 2 THEN Raised("ParseError", variables)
             ELSE LET variable == Variable(children[1], id)
                      copied == copy(variables)
                      inner == parse_query(children[2], Put(copied.dict, children[1], variable),
                                           2 * id)
                      after == IF copied.aliased THEN inner.variables ELSE variables
                  IN  IF inner.exc # "none" THEN Raised(inner.exc, after)
                      ELSE IF operator_name = <<"e", "x", "i", "s", "t">>
                      THEN Returned(ExistentialQuantifier(variable, inner.value), after)
                      ELSE Returned(UniversalQuantifier(variable, inner.value), after)
        ELSE Returned(Atom(operator_name,
                           [i \in DOMAIN children |-> dict_get(variables, children[i])]),
                      variables)

----------------------------------------------------------------------------
(* The store and the evaluator as a state machine: any sequence of calls    *)
(* of add, get, values and evaluate_query on one Store object.              *)

Probabilities == {Frac(1, 2), Frac(3, 2)}

\* The (relation, tuple) arguments of add and get.
Keys ==
    {<<"R", <<"a">>>>, <<"R", <<"b">>>>, <<"R", <<"c">>>>, <<"R", <<"a", "b">>>>,
     <<"S", <<"a", "b">>>>, <<"S", <<"a">>>>, <<"T", <<"b">>>>}

\* The (relation, position) arguments of values.
ValuesArguments ==
    {<<None, None>>} \cup {<<Some(r), Some(i)>> : r \in {"R", "S", "T"}, i \in {0, 1}}
        \cup {<<Some("R"), None>>, <<None, Some(0)>>}

x1 == Variable("x", 1)

y2 == Variable("y", 2)

GroundAtoms ==
    {Atom(key[1], [i \in DOMAIN key[2] |-> Str(key[2][i])]) : key \in Keys}
        \cup {Atom("T", <<Str("a")>>), Atom("U", <<Str("a")>>)}

\* The queries evaluate_query is called on, as parse_query builds them.
Queries ==
    GroundAtoms
        \cup {ExistentialQuantifier(x1, Atom("R", <<x1>>)),
              ExistentialQuantifier(x1, Atom("R", <<Str("a")>>)),
              ExistentialQuantifier(x1, Atom("S", <<x1, Str("b")>>)),
              ExistentialQuantifier(x1, Conjunction(Atom("R", <<x1>>), Atom("S", <<x1, Str("b")>>))),
              ExistentialQuantifier(x1, ExistentialQuantifier(y2,
                  Conjunction(Atom("R", <<x1>>),
                              Conjunction(Atom("S", <<x1, y2>>), Atom("T", <<y2>>))))),
              Conjunction(Atom("R", <<Str("a")>>), Atom("T", <<Str("b")>>)),
              Disjunction(Atom("R", <<Str("a")>>), Atom("T", <<Str("b")>>)),
              Conjunction(Atom("R", <<Str("a")>>), Atom("R", <<Str("b")>>)),
              Conjunction(Atom("R", <<Str("a")>>), Atom("R", <<Str("a")>>)),
              Disjunction(Atom("R", <<Str("a")>>), Atom("R", <<Str("a")>>)),
              Negation(Atom("R", <<Str("a")>>)),
              UniversalQuantifier(x1, Atom("R", <<x1>>))}

Init ==
    /\ store = Store_init
    /\ recorded = EmptyDict
    /\ last = [op |-> "init"]
    /\ parse_defaults = EmptyDict
    /\ parsed = [op |-> "init"]
    /\ pool = <<>>
    /\ decomposed = [op |-> "init"]

Add(relation, tuple_, probability) ==
    LET outcome == Store_add(store, relation, tuple_, probability)
    IN  /\ store' = outcome.self
        /\ recorded' = IF outcome.exc = "none"
                       THEN Put(recorded, <<relation, tuple_>>, probability)
                       ELSE recorded
        /\ last' = [op |-> "add", relation |-> relation, tuple |-> tuple_,
                    probability |-> probability, result |-> [exc |-> outcome.exc]]
        /\ UNCHANGED <<parse_defaults, parsed, pool, decomposed>>

Get(relation, tuple_) ==
    /\ last' = [op |-> "get", relation |-> relation, tuple |-> tuple_,
                result |-> Return(Store_get(store, relation, tuple_))]
    /\ UNCHANGED <<store, recorded, parse_defaults, parsed, pool, decomposed>>

Values(relation, position) ==
    /\ last' = [op |-> "values", relation |-> relation, position |-> position,
                result |-> Return(Store_values(store, relation, position))]
    /\ UNCHANGED <<store, recorded, parse_defaults, parsed, pool, decomposed>>

Evaluate(query) ==
    /\ last' = [op |-> "evaluate_query", query |-> query,
                result |-> evaluate_query(query, store)]
    /\ UNCHANGED <<store, recorded, parse_defaults, parsed, pool, decomposed>>

Next ==
    \/ \E key \in Keys, probability \in Probabilities : Add(key[1], key[2], probability)
    \/ \E key \in Keys : Get(key[1], key[2])
    \/ \E arguments \in ValuesArguments : Values(arguments[1], arguments[2])
    \/ \E query \in Queries : Evaluate(query)

Spec == Init /\ [][Next]_vars

----------------------------------------------------------------------------
(* Properties of the store and the evaluator, checked under Spec. *)

IsGroundAtom(query) ==
    query.kind = "Atom" /\ \A i \in DOMAIN query.tuple : query.tuple[i].kind = "str"

KeyOf(atom) == <<atom.relation, [i \in DOMAIN atom.tuple |-> atom.tuple[i].name]>>

\* C1: an add whose tuple length differs from the arity recorded for the relation
\* raises ValueError and leaves the store (arities and probabilities) as it was.
C1_ArityMismatchFailsAndKeepsStore ==
    [][(/\ last'.op = "add"
        /\ last'.relation \in DOMAIN store.arities
        /\ store.arities[last'.relation] # Len(last'.tuple))
       => (/\ last'.result.exc = "ValueError"
           /\ store'.arities = store.arities
           /\ store'.probabilities = store.probabilities)]_vars

C1_Witness ==
    /\ last.op = "add"
    /\ last.result.exc = "ValueError"
    /\ Cardinality(DOMAIN store.probabilities) >= 2

\* C2: evaluate_query on a ground atom returns, without raising, what Store.get
\* returns for its key: the probability of the latest successful add of that key, and
\* 0.0 when the key was never added.
C2_GroundAtomIsLatestAdd ==
    (last.op = "evaluate_query" /\ IsGroundAtom(last.query))
    => /\ last.result.exc = "none"
       /\ last.result.value = Store_get(store, last.query.relation, KeyOf(last.query)[2])
       /\ last.result.value = (IF KeyOf(last.query) \in DOMAIN recorded
                               THEN recorded[KeyOf(last.query)]
                               ELSE Zero)

C2_Witness ==
    /\ last.op = "evaluate_query"
    /\ IsGroundAtom(last.query)
    /\ KeyOf(last.query) \in DOMAIN recorded
    /\ last.result.value = Frac(3, 2)
    /\ \E atom \in GroundAtoms : atom.relation = last.query.relation /\ KeyOf(atom) \notin DOMAIN recorded

\* C3: values() is the set of the constants at any position of any added tuple, and
\* values(relation, position) is the set of the constants at index `position` of the
\* added tuples of `relation`, nothing else.
C3_ValuesAreTheStoredConstants ==
    (last.op = "values")
    => /\ (last.relation.none /\ last.position.none)
            => last.result.value
                 = {c \in {"a", "b", "c"} :
                      \E key \in DOMAIN recorded : \E i \in DOMAIN key[2] : key[2][i] = c}
       /\ (~last.relation.none /\ ~last.position.none)
            => last.result.value
                 = {c \in {"a", "b", "c"} :
                      \E key \in DOMAIN recorded :
                         /\ key[1] = last.relation.val
                         /\ last.position.val + 1 \in DOMAIN key[2]
                         /\ key[2][last.position.val + 1] = c}

C3_Witness ==
    /\ last.op = "values"
    /\ last.relation = Some("R")
    /\ last.position = Some(0)
    /\ last.result.value = {"a"}
    /\ <<"R", <<"a", "b">>>> \in DOMAIN store.probabilities
    /\ <<"T", <<"b">>>> \in DOMAIN store.probabilities

\* The domain of R5: the union of store.values(r, i) over the occurrences of v.
C4_Domain(inner, variable) ==
    UNION {Store_values(store, Some(occurrence[1]), Some(occurrence[2])) :
              occurrence \in find_occurrences(inner, variable).value}

\* The product over the constants of D of 1 - evaluate_query(rewrite(inner, v, c)).
RECURSIVE C4_ComplementProduct(_, _, _)
C4_ComplementProduct(D, inner, variable) ==
    IF D = {} THEN One
    ELSE LET c == CHOOSE d \in D : TRUE
         IN  FracMul(FracSub(One, evaluate_query(rewrite(inner, variable, c).value, store).value),
                     C4_ComplementProduct(D \ {c}, inner, variable))

\* C4: for exist(v, Q') with v a separator variable of Q', evaluate_query returns
\* 1 - prod_{c in D} (1 - evaluate_query(rewrite(Q', v, c))); exist(x, R(x)) over
\* R(a) = R(b) = R(c) = 0.5 evaluates to 0.875.
C4_SeparatorElimination ==
    (/\ last.op = "evaluate_query"
     /\ last.query.kind = "ExistentialQuantifier"
     /\ is_separator_variable(last.query.variable, last.query.inner).exc = "none"
     /\ is_separator_variable(last.query.variable, last.query.inner).value)
    => /\ last.result.exc = "none"
       /\ FracEq(last.result.value,
                 FracSub(One, C4_ComplementProduct(C4_Domain(last.query.inner, last.query.variable),
                                                   last.query.inner, last.query.variable)))
       /\ (/\ last.query = ExistentialQuantifier(x1, Atom("R", <<x1>>))
           /\ \A c \in {"a", "b", "c"} : Store_get(store, "R", <<c>>) = Frac(1, 2))
            => FracEq(last.result.value, Frac(7, 8))

\* The queries C5 is about: atoms, conjunctions, disjunctions and existential
\* quantifiers, every variable bound by an enclosing quantifier.
RECURSIVE WellFormed(_, _)
WellFormed(query, bound) ==
    IF query.kind = "Atom"
    THEN \A i \in DOMAIN query.tuple : query.tuple[i].kind = "Variable" => query.tuple[i] \in bound
    ELSE IF query.kind \in {"Conjunction", "Disjunction"}
    THEN WellFormed(query.left, bound) /\ WellFormed(query.right, bound)
    ELSE IF query.kind = "ExistentialQuantifier"
    THEN WellFormed(query.inner, bound \cup {query.variable})
    ELSE FALSE

\* C5: when evaluate_query fails on a well-formed query over a populated store, the
\* failure is EvaluationError (Intractable) and no other exception.
C5_OnlyIntractable ==
    (/\ last.op = "evaluate_query"
     /\ WellFormed(last.query, {})
     /\ DOMAIN store.probabilities # {}
     /\ last.result.exc # "none")
    => last.result.exc = "EvaluationError"

\* C6: a conjunction (disjunction) of two ground atoms that decompose puts in two
\* groups evaluates to the product of the two results (to 1 minus the product of
\* their complements).
C6_IndependentGroups ==
    (/\ last.op = "evaluate_query"
     /\ last.query.kind \in {"Conjunction", "Disjunction"}
     /\ IsGroundAtom(last.query.left)
     /\ IsGroundAtom(last.query.right)
     /\ decompose(<<1, 2>>, <<last.query.left, last.query.right>>).exc = "none"
     /\ Len(decompose(<<1, 2>>, <<last.query.left, last.query.right>>).value) > 1)
    => LET left == evaluate_query(last.query.left, store).value
           right == evaluate_query(last.query.right, store).value
       IN  /\ last.result.exc = "none"
           /\ FracEq(last.result.value,
                     IF last.query.kind = "Conjunction"
                     THEN FracMul(left, right)
                     ELSE FracSub(One, FracMul(FracSub(One, left), FracSub(One, right))))

\* The term of inclusion-exclusion for a non-empty subset of the children: the
\* disjunction of its members (a sole member stands for itself).
C7_Term(subset, children) ==
    IF Len(subset) = 1 THEN evaluate_query(children[subset[1]], store)
    ELSE evaluate_query(Disjunction(children[subset[1]], children[subset[2]]), store)

\* The sum of (-1)^(|S|+1) * term(S) over the non-empty subsets from the k-th on.
RECURSIVE C7_Sum(_, _, _)
C7_Sum(subsets, k, children) ==
    IF k > Len(subsets) THEN Zero
    ELSE IF subsets[k] = <<>> THEN C7_Sum(subsets, k + 1, children)
    ELSE IF Len(subsets[k]) % 2 = 1
    THEN FracAdd(C7_Sum(subsets, k + 1, children), C7_Term(subsets[k], children).value)
    ELSE FracSub(C7_Sum(subsets, k + 1, children), C7_Term(subsets[k], children).value)

\* C7: a conjunction of two ground atoms that decompose puts in one group evaluates
\* to the inclusion-exclusion sum over the non-empty subsets of its children; it
\* fails only when a term is intractable.
C7_InclusionExclusion ==
    (/\ last.op = "evaluate_query"
     /\ last.query.kind = "Conjunction"
     /\ IsGroundAtom(last.query.left)
     /\ IsGroundAtom(last.query.right)
     /\ decompose(<<1, 2>>, <<last.query.left, last.query.right>>).exc = "none"
     /\ Len(decompose(<<1, 2>>, <<last.query.left, last.query.right>>).value) = 1)
    => /\ last.result.exc \in {"none", "EvaluationError"}
       /\ last.result.exc = "none"
            => LET children == <<last.query.left, last.query.right>>
                   subsets == powerset(<<1, 2>>)
               IN  /\ \A k \in DOMAIN subsets :
                         subsets[k] # <<>> => C7_Term(subsets[k], children).exc = "none"
                   /\ FracEq(last.result.value, C7_Sum(subsets, 1, children))

\* C8: every probability Store.get returns is at least 0 and at most 1.
C8_ProbabilitiesInUnitInterval ==
    \A key \in Keys :
        /\ FracLeq(Zero, Store_get(store, key[1], key[2]))
        /\ FracLeq(Store_get(store, key[1], key[2]), One)

----------------------------------------------------------------------------
(* The parser as a state machine: calls of parse_query(text), each with the *)
(* default `variables`, one dict object shared by all the calls.            *)

MaxOperators == 2

Identifiers == {<<"x">>, <<"y">>}

SourceAtoms ==
    {[kind |-> "atom", relation |-> <<"r", "1">>, terms |-> terms] :
        terms \in {<<<<"x">>>>, <<<<"y">>>>, <<<<"x">>, <<"y">>>>}}

\* The query texts with exactly n operators, as trees.
RECURSIVE SourceTrees(_)
SourceTrees(n) ==
    IF n = 0 THEN SourceAtoms
    ELSE {[kind |-> "not", inner |-> inner] : inner \in SourceTrees(n - 1)}
         \cup {[kind |-> kind, name |-> name, inner |-> inner] :
                  kind \in {"exist", "forall"}, name \in Identifiers, inner \in SourceTrees(n - 1)}
         \cup UNION {{[kind |-> kind, left |-> left, right |-> right] :
                         kind \in {"and", "or"}, left \in SourceTrees(i),
                         right \in SourceTrees(n - 1 - i)} : i \in 0 .. (n - 1)}

Sources == UNION {SourceTrees(n) : n \in 0 .. MaxOperators}

Keyword(kind) ==
    IF kind = "not" THEN <<"n", "o", "t">>
    ELSE IF kind = "and" THEN <<"a", "n", "d">>
    ELSE IF kind = "or" THEN <<"o", "r">>
    ELSE IF kind = "exist" THEN <<"e", "x", "i", "s", "t">>
    ELSE <<"f", "o", "r", "a", "l", "l">>

\* The text of a tree, written as the tests write queries: "and(r1(x, y), r1(y))".
RECURSIVE Text(_)
Text(tree) ==
    IF tree.kind = "atom"
    THEN tree.relation \o <<"(">> \o tree.terms[1]
           \o (IF Len(tree.terms) = 2 THEN <<",", " ">> \o tree.terms[2] ELSE <<>>) \o <<")">>
    ELSE IF tree.kind = "not"
    THEN Keyword(tree.kind) \o <<"(">> \o Text(tree.inner) \o <<")">>
    ELSE IF tree.kind \in {"and", "or"}
    THEN Keyword(tree.kind) \o <<"(">> \o Text(tree.left) \o <<",", " ">> \o Text(tree.right)
           \o <<")">>
    ELSE Keyword(tree.kind) \o <<"(">> \o tree.name \o <<",", " ">> \o Text(tree.inner) \o <<")">>

ParseInit ==
    /\ store = Store_init
    /\ recorded = EmptyDict
    /\ last = [op |-> "init"]
    /\ parse_defaults = EmptyDict
    /\ parsed = [op |-> "init"]
    /\ pool = <<>>
    /\ decomposed = [op |-> "init"]

\* parse_query(Text(tree)): `variables` is the default dict.
ParseQuery(tree) ==
    LET outcome == parse_query(Text(tree), parse_defaults, 1)
    IN  /\ parsed.op = "init"
        /\ parsed' = [op |-> "parse_query", tree |-> tree, query |-> Text(tree),
                      result |-> [exc |-> outcome.exc, value |-> outcome.value]]
        /\ parse_defaults' = outcome.variables
        /\ UNCHANGED <<store, recorded, last, pool, decomposed>>

\* The caller is done with the result of the call.
ParseDone ==
    /\ parsed.op = "parse_query"
    /\ parsed' = [op |-> "init"]
    /\ UNCHANGED <<store, recorded, last, parse_defaults, pool, decomposed>>

ParseNext ==
    \/ \E tree \in Sources : ParseQuery(tree)
    \/ ParseDone

SpecParse == ParseInit /\ [][ParseNext]_vars

\* The query a text stands for: each identifier in a term position is the Variable of
\* the innermost enclosing exist/forall of that name, and a constant when there is none.
\* `scope` maps each name bound here to the identity of its Variable.
RECURSIVE Resolved(_, _, _)
Resolved(tree, scope, id) ==
    IF tree.kind = "atom"
    THEN Atom(tree.relation,
              [i \in DOMAIN tree.terms |->
                 IF tree.terms[i] \in DOMAIN scope
                 THEN Variable(tree.terms[i], scope[tree.terms[i]])
                 ELSE Str(tree.terms[i])])
    ELSE IF tree.kind = "not" THEN Negation(Resolved(tree.inner, scope, 2 * id))
    ELSE IF tree.kind = "and"
    THEN Conjunction(Resolved(tree.left, scope, 2 * id), Resolved(tree.right, scope, 2 * id + 1))
    ELSE IF tree.kind = "or"
    THEN Disjunction(Resolved(tree.left, scope, 2 * id), Resolved(tree.right, scope, 2 * id + 1))
    ELSE IF tree.kind = "exist"
    THEN ExistentialQuantifier(Variable(tree.name, id),
                               Resolved(tree.inner, Put(scope, tree.name, id), 2 * id))
    ELSE UniversalQuantifier(Variable(tree.name, id),
                             Resolved(tree.inner, Put(scope, tree.name, id), 2 * id))

\* C9: parse_query makes an identifier in a term position the Variable bound by the
\* enclosing exist/forall of that name and a constant string in every other case, also
\* when the name is bound in a sibling subquery or was bound in an earlier call.
C9_IdentifiersResolveByScope ==
    (parsed.op = "parse_query")
    => /\ parsed.result.exc = "none"
       /\ parsed.result.value = Resolved(parsed.tree, EmptyDict, 1)
       /\ parse_defaults = EmptyDict

\* A binder, a sibling atom that uses the bound name as a constant, and the bound name
\* used as a variable under the binder.
C9_Witness ==
    /\ parsed.op = "parse_query"
    /\ parsed.tree.kind = "and"
    /\ parsed.tree.left.kind = "exist"
    /\ parsed.tree.left.inner.kind = "atom"
    /\ parsed.tree.right.kind = "atom"
    /\ parsed.result.exc = "none"
    /\ parsed.result.value.left.inner.tuple[1] = parsed.result.value.left.variable
    /\ parsed.result.value.right.tuple[1] = Str(parsed.tree.left.name)

----------------------------------------------------------------------------
(* decompose as a state machine: calls of decompose on lists of the query   *)
(* objects of `pool`; a list may hold the same object more than once.       *)

MaxQueries == 3

\* Two distinct Atom objects R(a), an atom with a variable, atoms of other constants,
\* relations and arities, and a Conjunction as parse_query builds it.
DecomposePool ==
    <<Atom("R", <<Str("a")>>), Atom("R", <<Str("a")>>), Atom("R", <<x1>>),
      Atom("R", <<Str("b")>>), Atom("S", <<Str("a")>>), Atom("S", <<Str("a"), Str("b")>>),
      Conjunction(Atom("R", <<Str("b")>>), Atom("T", <<Str("a")>>))>>

RECURSIVE Lists(_, _)
Lists(S, n) == IF n = 0 THEN {<<>>} ELSE {Append(list, x) : list \in Lists(S, n - 1), x \in S}

DecomposeArguments == UNION {Lists(DOMAIN DecomposePool, n) : n \in 0 .. MaxQueries}

DecomposeInit ==
    /\ store = Store_init
    /\ recorded = EmptyDict
    /\ last = [op |-> "init"]
    /\ parse_defaults = EmptyDict
    /\ parsed = [op |-> "init"]
    /\ pool = DecomposePool
    /\ decomposed = [op |-> "init"]

Decompose(queries) ==
    /\ decomposed.op = "init"
    /\ decomposed' = [op |-> "decompose", queries |-> queries,
                      result |-> decompose(queries, pool)]
    /\ UNCHANGED <<store, recorded, last, parse_defaults, parsed, pool>>

\* The caller is done with the result of the call.
DecomposeDone ==
    /\ decomposed.op = "decompose"
    /\ decomposed' = [op |-> "init"]
    /\ UNCHANGED <<store, recorded, last, parse_defaults, parsed, pool>>

DecomposeNext ==
    \/ \E queries \in DecomposeArguments : Decompose(queries)
    \/ DecomposeDone

SpecDecompose == DecomposeInit /\ [][DecomposeNext]_vars

\* The places <<g, i>> of the groups that hold the query q.
Places(groups_, q) ==
    UNION {{<<g, i>> : i \in {j \in DOMAIN groups_[g] : groups_[g][j] = q}} : g \in DOMAIN groups_}

\* Some atom of one query is unifiable with some atom of the other.
Dependent(q1, q2) ==
    /\ is_independent(pool[q1], pool[q2]).exc = "none"
    /\ ~is_independent(pool[q1], pool[q2]).value

\* The queries of Q reached from those of `reached` by chains of dependent pairs.
RECURSIVE Linked(_, _)
Linked(reached, Q) ==
    LET more == reached \cup {q \in Q : \E r \in reached : Dependent(r, q) \/ Dependent(q, r)}
    IN  IF more = reached THEN reached ELSE Linked(more, Q)

IsPartitionIntoMaximalIndependentGroups(queries, groups_) ==
    /\ \A q \in Range(queries) : Cardinality(Places(groups_, q)) = 1
    /\ \A g \in DOMAIN groups_ : groups_[g] # <<>> /\ Range(groups_[g]) \subseteq Range(queries)
    /\ \A g, h \in DOMAIN groups_ :
          g # h => \A q1 \in Range(groups_[g]) : \A q2 \in Range(groups_[h]) :
                      /\ is_independent(pool[q1], pool[q2]).exc = "none"
                      /\ is_independent(pool[q1], pool[q2]).value
    /\ \A g \in DOMAIN groups_ : \A q \in Range(groups_[g]) :
          Range(groups_[g]) \subseteq Linked({q}, Range(queries))

\* C10: decompose(queries) returns a partition of its argument: every query is in
\* exactly one group, queries of different groups are independent, and the queries of
\* one group are linked by a chain of pairwise dependent queries.
C10_DecomposePartitions ==
    (decomposed.op = "decompose")
    => /\ decomposed.result.exc = "none"
       /\ IsPartitionIntoMaximalIndependentGroups(decomposed.queries, decomposed.result.value)

\* On lists of atoms decompose returns, and what it returns is such a partition.
DecomposePartitionsAtoms ==
    (decomposed.op = "decompose" /\ \A q \in Range(decomposed.queries) : pool[q].kind = "Atom")
    => /\ decomposed.result.exc = "none"
       /\ IsPartitionIntoMaximalIndependentGroups(decomposed.queries, decomposed.result.value)

====
